---- MODULE Spec2Model ----
(***************************************************************************)
(* wgsl_to_wgpu: generation of Rust source text from the reflection data   *)
(* of a parsed WGSL module (src/wgsl_to_wgpu/src/lib.rs).                  *)
(*                                                                         *)
(* The generated text is a sequence of lines; every line is the string the *)
(* templates of lib.rs produce, indentation included.  A parsed module is  *)
(* a record  [types, global_variables, entry_points]  standing for the     *)
(* naga::Module that naga::front::wgsl::parse_str returns.                 *)
(***************************************************************************)
EXTENDS Integers, Sequences, FiniteSets, TLC

VARIABLES
    impl,               \* choices the specification leaves to the implementation
    wgsl_source,        \* argument of the last call (the parsed module)
    wgsl_include_path,  \* argument of the last call
    result,             \* what the last call returned
    history             \* results of the earlier calls, oldest first

vars == <<impl, wgsl_source, wgsl_include_path, result, history>>

(***************************************************************************)
(* Bounds of the model.                                                    *)
(***************************************************************************)
MaxGlobals == 2     \* resource variables declared by one shader
MaxGroup == 2       \* largest group index a shader uses
MaxBinding == 1     \* largest binding index a shader uses
MaxCalls == 3       \* calls of one session
MaxMembers == 2     \* members of one struct

(***************************************************************************)
(* wgpu::ShaderStages bit flags.                                           *)
(***************************************************************************)
VERTEX == 1
FRAGMENT == 2
COMPUTE == 4
VERTEX_FRAGMENT == 3

Stages == {"vertex", "fragment", "compute"}

StageFlag(stage) ==
    CASE stage = "vertex" -> VERTEX
      [] stage = "fragment" -> FRAGMENT
      [] stage = "compute" -> COMPUTE

\* bitwise or of two flag sets over the three stage bits
BitOr(a, b) ==
    LET bit(x, v) == IF (x \div v) % 2 = 1 THEN v ELSE 0
        or(v) == IF bit(a, v) = v \/ bit(b, v) = v THEN v ELSE 0
    IN  or(VERTEX) + or(FRAGMENT) + or(COMPUTE)

(***************************************************************************)
(* Sequences.                                                              *)
(***************************************************************************)
RECURSIVE Flatten(_)
Flatten(ss) == IF ss = <<>> THEN <<>> ELSE Head(ss) \o Flatten(Tail(ss))

\* the elements of a finite set of numbers, ascending
RECURSIVE Ascending(_)
Ascending(S) ==
    IF S = {} THEN <<>>
    ELSE LET m == CHOOSE x \in S : \A y \in S : x <= y
         IN  <<m>> \o Ascending(S \ {m})

Reverse(s) == [i \in 1..Len(s) |-> s[Len(s) + 1 - i]]

\* str.lines().map(|l| " ".repeat(level) + l)
RECURSIVE Spaces(_)
Spaces(level) == IF level = 0 THEN "" ELSE " " \o Spaces(level - 1)

indent(lines, level) == [i \in 1..Len(lines) |-> Spaces(level) \o lines[i]]

\* write_indented appends the indented lines to the writer
write_indented(level, lines) == indent(lines, level)

\* Vec<String>::join(sep)
RECURSIVE Join(_, _)
Join(strs, sep) ==
    IF strs = <<>> THEN ""
    ELSE IF Len(strs) = 1 THEN strs[1]
    ELSE strs[1] \o sep \o Join(Tail(strs), sep)

(***************************************************************************)
(* Outcome of a writer: the lines written, or a panic (panic!, todo!(), an *)
(* unwrap of None) that abandons the call; out then holds what the writer  *)
(* had written when it panicked.                                           *)
(***************************************************************************)
Written(lines) == [ok |-> TRUE, out |-> lines]

Panicked(lines) == [ok |-> FALSE, out |-> lines]

\* b runs after a, and only if a returned
Then(a, b) == IF a.ok THEN [ok |-> b.ok, out |-> a.out \o b.out] ELSE a

RECURSIVE ThenAll(_)
ThenAll(ws) == IF ws = <<>> THEN Written(<<>>) ELSE Then(Head(ws), ThenAll(Tail(ws)))

(***************************************************************************)
(* naga::TypeInner, as far as the generator looks at it.                   *)
(***************************************************************************)
Scalar(kind, width) == [k |-> "Scalar", kind |-> kind, width |-> width]

Vector(size, kind, width) == [k |-> "Vector", size |-> size, kind |-> kind, width |-> width]

Matrix(columns, rows, width) == [k |-> "Matrix", columns |-> columns, rows |-> rows, width |-> width]

\* size > 0: ArraySize::Constant(size); size = 0: ArraySize::Dynamic
Array(base, size) == [k |-> "Array", base |-> base, size |-> size]

Struct(members) == [k |-> "Struct", members |-> members]

Image(dim, class) == [k |-> "Image", dim |-> dim, class |-> class]

Sampler(comparison) == [k |-> "Sampler", comparison |-> comparison]

\* naga::Type { name, inner }
Type(name, inner) == [name |-> name, inner |-> inner]

\* naga::StructMember { name, ty, binding: Location }
StructMember(name, ty, location) == [name |-> name, ty |-> ty, location |-> location]

(***************************************************************************)
(* wgsl::rust_type: the host type of a struct member.  "" stands for the   *)
(* shapes the mapping does not cover, on which generation is abandoned.    *)
(***************************************************************************)
rust_scalar_type(kind, width) ==
    IF width # 4 THEN ""
    ELSE CASE kind = "Float" -> "f32"
           [] kind = "Sint" -> "i32"
           [] kind = "Uint" -> "u32"
           [] OTHER -> ""

RECURSIVE rust_type(_)
rust_type(ty) ==
    CASE ty.k = "Scalar" -> rust_scalar_type(ty.kind, ty.width)
      [] ty.k = "Vector" ->
            LET e == rust_scalar_type(ty.kind, ty.width)
            IN  IF e = "" THEN "" ELSE "[" \o e \o "; " \o ToString(ty.size) \o "]"
      [] ty.k = "Matrix" ->
            IF ty.columns = 4 /\ ty.rows = 4 /\ ty.width = 4 THEN "glam::Mat4" ELSE ""
      [] ty.k = "Array" ->
            LET e == rust_type(ty.base)
            IN  IF e = "" \/ ty.size = 0 THEN ""
                ELSE "[" \o e \o "; " \o ToString(ty.size) \o "]"
      [] OTHER -> ""

(***************************************************************************)
(* write_structs, write_struct_members                                     *)
(***************************************************************************)
write_struct_member(level, member) ==
    LET member_type == rust_type(member.ty)
    IN  IF member_type = "" THEN Panicked(<<>>)
        ELSE Written(write_indented(level,
                 <<"pub " \o member.name \o ": " \o member_type \o ",">>))

\* the members are walked from the last to the first
write_struct_members_Reversed(level, members) ==
    ThenAll([i \in 1..Len(members) |->
                write_struct_member(level, members[Len(members) + 1 - i])])

write_struct_members(level, members) ==
    ThenAll([i \in 1..Len(members) |-> write_struct_member(level, members[i])])

write_struct(level, t) ==
    Then(Written(write_indented(level,
             << "#[repr(C)]",
                "#[derive(Debug, Copy, Clone, PartialEq, bytemuck::Pod, bytemuck::Zeroable)]",
                "pub struct " \o t.name \o " {" >>)),
    Then(write_struct_members(level + 4, t.inner.members),
         Written(write_indented(level, <<"}">>))))

write_structs(level, module) ==
    ThenAll([i \in 1..Len(module.types) |->
                IF module.types[i].inner.k = "Struct"
                THEN write_struct(level, module.types[i])
                ELSE Written(<<>>)])

(***************************************************************************)
(* naga::Module: global variables and entry points.                        *)
(***************************************************************************)
\* Option<T>: None is the empty sequence, Some(x) is <<x>>
None == <<>>

Some(x) == <<x>>

\* naga::ResourceBinding { group, binding }
ResourceBinding(group, binding) == [group |-> group, binding |-> binding]

\* naga::StorageClass; access is "" unless the class is Storage
StorageClass(space, access) == [space |-> space, access |-> access]

\* naga::GlobalVariable { name, class, binding, ty }
GlobalVariable(name, class, binding, ty) ==
    [name |-> name, class |-> class, binding |-> binding, ty |-> ty]

\* naga::EntryPoint { stage, function.arguments }
EntryPoint(stage, arguments) == [stage |-> stage, arguments |-> arguments]

\* wgsl::shader_stages: the union of the stages of all entry points
RECURSIVE StagesOf(_)
StagesOf(entry_points) ==
    IF entry_points = <<>> THEN 0
    ELSE BitOr(StageFlag(Head(entry_points).stage), StagesOf(Tail(entry_points)))

shader_stages(module) == StagesOf(module.entry_points)

(***************************************************************************)
(* wgsl::get_bind_group_data: the resource variables grouped by group      *)
(* index, each group ordered by binding index, and the two structural      *)
(* checks.  The result maps each group index to its GroupData.             *)
(***************************************************************************)
NonConsecutiveBindGroups == [err |-> "NonConsecutiveBindGroups"]

DuplicateBinding(binding) == [err |-> "DuplicateBinding", binding |-> binding]

Ok(value) == [ok |-> TRUE, value |-> value]

Err(error) == [ok |-> FALSE, error |-> error]

GroupBinding(global) ==
    [name |-> global.name,
     binding_index |-> global.binding[1].binding,
     binding_type |-> global.ty,
     storage_class |-> global.class]

\* the global variables that carry a (group, binding) pair, in declaration order
Resources(module) == SelectSeq(module.global_variables, LAMBDA g : g.binding # None)

\* insert b into the ascending sequence bs, after the bindings that are not larger
RECURSIVE InsertBinding(_, _)
InsertBinding(bs, b) ==
    IF bs = <<>> THEN <<b>>
    ELSE IF Head(bs).binding_index <= b.binding_index
         THEN <<Head(bs)>> \o InsertBinding(Tail(bs), b)
         ELSE <<b>> \o bs


\* the bindings are left in the order of their declaration
SortBindings_Declared(bs) == bs

RECURSIVE SortBindings(_)
SortBindings(bs) ==
    IF bs = <<>> THEN <<>>
    ELSE InsertBinding(SortBindings(SubSeq(bs, 1, Len(bs) - 1)), bs[Len(bs)])

GroupData(bindings) == [bindings |-> bindings]

GroupsOf(module) ==
    LET rs == Resources(module)
        of(g) == SelectSeq(rs, LAMBDA r : r.binding[1].group = g)
    IN  [g \in {rs[i].binding[1].group : i \in 1..Len(rs)} |->
            GroupData(SortBindings([i \in 1..Len(of(g)) |-> GroupBinding(of(g)[i])]))]


\* a binding index counts as repeated when any group has used it before
Repeats_AnyGroup(rs) ==
    {i \in 1..Len(rs) : \E j \in 1..(i - 1) : rs[j].binding[1].binding = rs[i].binding[1].binding}

\* the positions, in declaration order, of the resources that repeat the
\* (group, binding) pair of an earlier resource
Repeats(rs) == {i \in 1..Len(rs) : \E j \in 1..(i - 1) : rs[j].binding = rs[i].binding}

HasDuplicateBinding(module) == Repeats(Resources(module)) # {}

\* the group index reported in place of the binding index
FirstDuplicateBinding_Group(module) ==
    LET rs == Resources(module)
        i == CHOOSE x \in Repeats(rs) : \A y \in Repeats(rs) : x <= y
    IN  rs[i].binding[1].group

FirstDuplicateBinding(module) ==
    LET rs == Resources(module)
        i == CHOOSE x \in Repeats(rs) : \A y \in Repeats(rs) : x <= y
    IN  rs[i].binding[1].binding

IsConsecutive(groups) == groups = 0..(Cardinality(groups) - 1)

\* which of the two checks is made first is the implementation's choice
get_bind_group_data(module, duplicate_first) ==
    LET groups == GroupsOf(module)
        dup == HasDuplicateBinding(module)
        gap == ~IsConsecutive(DOMAIN groups)
    IN  IF dup /\ (duplicate_first \/ ~gap)
            THEN Err(DuplicateBinding(FirstDuplicateBinding(module)))
        ELSE IF gap THEN Err(NonConsecutiveBindGroups)
        ELSE Ok(groups)

\* the keys as a hash map would yield them: in no ascending order
Keys_Unordered(bind_group_data) == Reverse(Ascending(DOMAIN bind_group_data))

\* BTreeMap<u32, GroupData>::keys(), iter(): ascending key order
Keys(bind_group_data) == Ascending(DOMAIN bind_group_data)

(***************************************************************************)
(* write_bind_group_layout: the payload struct of one group.               *)
(***************************************************************************)
binding_field_type(binding) ==
    CASE binding.binding_type.inner.k = "Struct" -> "wgpu::BufferBinding<'a>"
      [] binding.binding_type.inner.k = "Image" -> "&'a wgpu::TextureView"
      [] binding.binding_type.inner.k = "Sampler" -> "&'a wgpu::Sampler"
      [] OTHER -> ""

write_bind_group_layout_field(level, binding) ==
    LET field_type == binding_field_type(binding)
    IN  IF field_type = "" THEN Panicked(<<>>)
        ELSE Written(write_indented(level,
                 <<"pub " \o binding.name \o ": " \o field_type \o ",">>))

write_bind_group_layout(level, group_no, group) ==
    Then(Written(write_indented(level,
             <<"pub struct BindGroupLayout" \o ToString(group_no) \o "<'a> {">>)),
    Then(ThenAll([i \in 1..Len(group.bindings) |->
                     write_bind_group_layout_field(level + 4, group.bindings[i])]),
         Written(write_indented(level, <<"}">>))))

(***************************************************************************)
(* write_bind_group_layout_entry, write_bind_group_layout_descriptor       *)
(***************************************************************************)
\* every other stage set is given all stages in place of the todo!() arm
stages_text_Default(stages) ==
    CASE stages = VERTEX_FRAGMENT -> "wgpu::ShaderStages::VERTEX_FRAGMENT"
      [] stages = COMPUTE -> "wgpu::ShaderStages::COMPUTE"
      [] stages = VERTEX -> "wgpu::ShaderStages::VERTEX"
      [] stages = FRAGMENT -> "wgpu::ShaderStages::FRAGMENT"
      [] OTHER -> "wgpu::ShaderStages::all()"

\* the match on shader_stages; "" is the todo!() arm
stages_text(stages) ==
    CASE stages = VERTEX_FRAGMENT -> "wgpu::ShaderStages::VERTEX_FRAGMENT"
      [] stages = COMPUTE -> "wgpu::ShaderStages::COMPUTE"
      [] stages = VERTEX -> "wgpu::ShaderStages::VERTEX"
      [] stages = FRAGMENT -> "wgpu::ShaderStages::FRAGMENT"
      [] OTHER -> ""

\* a storage buffer is read-write whatever its access mode
buffer_binding_type_ReadWrite(storage_class) ==
    CASE storage_class.space = "Uniform" -> "wgpu::BufferBindingType::Uniform"
      [] storage_class.space = "Storage" ->
            "wgpu::BufferBindingType::Storage { read_only: false }"
      [] OTHER -> ""

\* wgsl::buffer_binding_type; "" is an access mode that is not recognised
buffer_binding_type(storage_class) ==
    CASE storage_class.space = "Uniform" -> "wgpu::BufferBindingType::Uniform"
      [] storage_class.space = "Storage" /\ storage_class.access = "read" ->
            "wgpu::BufferBindingType::Storage { read_only: true }"
      [] storage_class.space = "Storage" /\ storage_class.access = "read_write" ->
            "wgpu::BufferBindingType::Storage { read_only: false }"
      [] OTHER -> ""


\* every texture is given the two-dimensional view
view_dimension_D2(dim) == "wgpu::TextureViewDimension::D2"

view_dimension(dim) ==
    CASE dim = "D1" -> "wgpu::TextureViewDimension::D1"
      [] dim = "D2" -> "wgpu::TextureViewDimension::D2"
      [] dim = "D3" -> "wgpu::TextureViewDimension::D3"
      [] dim = "Cube" -> "wgpu::TextureViewDimension::Cube"

\* "" is the todo!() arm of ImageClass::Storage
sample_type(class) ==
    CASE class.c = "Sampled" -> "wgpu::TextureSampleType::Float { filterable: true }"
      [] class.c = "Depth" -> "wgpu::TextureSampleType::Depth"
      [] OTHER -> ""

write_binding_type(level, binding) ==
    LET inner == binding.binding_type.inner
    IN  CASE inner.k = "Struct" ->
                LET ty == buffer_binding_type(binding.storage_class)
                IN  IF ty = "" THEN Panicked(<<>>)
                    ELSE Written(write_indented(level,
                             << "ty: wgpu::BindingType::Buffer {",
                                "    ty: " \o ty \o ",",
                                "    has_dynamic_offset: false,",
                                "    min_binding_size: None,",
                                "}," >>))
          [] inner.k = "Image" ->
                IF sample_type(inner.class) = "" THEN Panicked(<<>>)
                ELSE Written(write_indented(level,
                         << "ty: wgpu::BindingType::Texture {",
                            "    multisampled: false,",
                            "    view_dimension: " \o view_dimension(inner.dim) \o ",",
                            "    sample_type: " \o sample_type(inner.class) \o ",",
                            "}," >>))
          [] inner.k = "Sampler" ->
                Written(write_indented(level,
                    <<"ty: wgpu::BindingType::Sampler(" \o
                      (IF inner.comparison THEN "wgpu::SamplerBindingType::Comparison"
                                           ELSE "wgpu::SamplerBindingType::Filtering")
                      \o "),">>))
          [] OTHER -> Panicked(<<>>)

write_bind_group_layout_entry(binding, level, stages) ==
    IF stages_text(stages) = "" THEN Panicked(<<>>)
    ELSE Then(Written(write_indented(level,
                  << "wgpu::BindGroupLayoutEntry {",
                     "    binding: " \o ToString(binding.binding_index) \o "u32,",
                     "    visibility: " \o stages_text(stages) \o "," >>)),
         Then(write_binding_type(level + 4, binding),
              Written(write_indented(level,
                  << "    count: None,",
                     "}," >>))))

write_bind_group_layout_descriptor(level, group_no, group, stages) ==
    Then(Written(write_indented(level,
             << "const LAYOUT_DESCRIPTOR" \o ToString(group_no)
                    \o ": wgpu::BindGroupLayoutDescriptor = wgpu::BindGroupLayoutDescriptor {",
                "    label: None,",
                "    entries: &[" >>)),
    Then(ThenAll([i \in 1..Len(group.bindings) |->
                     write_bind_group_layout_entry(group.bindings[i], level + 8, stages)]),
         Written(write_indented(level,
             << "    ]",
                "};" >>))))

(***************************************************************************)
(* impl_bind_group: the wrapper type of one group.                         *)
(***************************************************************************)
pass_type(is_compute) ==
    IF is_compute THEN "wgpu::ComputePass<'a>" ELSE "wgpu::RenderPass<'a>"


\* every binding is handed over as a buffer
resource_type_Buffer(binding) ==
    CASE binding.binding_type.inner.k \in {"Struct", "Image", "Sampler"} ->
            "wgpu::BindingResource::Buffer(bindings." \o binding.name \o ")"
      [] OTHER -> ""

resource_type(binding) ==
    CASE binding.binding_type.inner.k = "Struct" ->
            "wgpu::BindingResource::Buffer(bindings." \o binding.name \o ")"
      [] binding.binding_type.inner.k = "Image" ->
            "wgpu::BindingResource::TextureView(bindings." \o binding.name \o ")"
      [] binding.binding_type.inner.k = "Sampler" ->
            "wgpu::BindingResource::Sampler(bindings." \o binding.name \o ")"
      [] OTHER -> ""

write_bind_group_entry(level, binding) ==
    IF resource_type(binding) = "" THEN Panicked(<<>>)
    ELSE Written(write_indented(level,
             << "wgpu::BindGroupEntry {",
                "    binding: " \o ToString(binding.binding_index) \o "u32,",
                "    resource: " \o resource_type(binding) \o ",",
                "}," >>))

\* let is_compute = shader_stages == wgpu::ShaderStages::COMPUTE (impl_bind_group)
group_is_compute(stages) == stages = COMPUTE

impl_bind_group(level, group_no, group, stages) ==
    LET n == ToString(group_no)
        is_compute == group_is_compute(stages)
    IN  Then(Written(write_indented(level,
             << "impl BindGroup" \o n \o " {",
                "    pub fn get_bind_group_layout(device: &wgpu::Device) -> wgpu::BindGroupLayout {",
                "        device.create_bind_group_layout(&LAYOUT_DESCRIPTOR" \o n \o ")",
                "    }",
                "",
                "    pub fn from_bindings(device: &wgpu::Device, bindings: BindGroupLayout"
                    \o n \o ") -> Self {",
                "        let bind_group_layout = device.create_bind_group_layout(&LAYOUT_DESCRIPTOR"
                    \o n \o ");",
                "        let bind_group = device.create_bind_group(&wgpu::BindGroupDescriptor {",
                "            layout: &bind_group_layout,",
                "            entries: &[" >>)),
        Then(ThenAll([i \in 1..Len(group.bindings) |->
                         write_bind_group_entry(level + 16, group.bindings[i])]),
        Then(Written(write_indented(level + 4,
             << "        ],",
                "        label: None,",
                "    });",
                "    Self(bind_group)",
                "}" >>)),
             Written(write_indented(level,
             << "",
                "    pub fn set<'a>(&'a self, render_pass: &mut " \o pass_type(is_compute) \o ") {",
                "        render_pass.set_bind_group(" \o n \o "u32, &self.0, &[]);",
                "    }",
                "}" >>)))))

(***************************************************************************)
(* write_set_bind_groups, write_bind_groups_module                         *)
(***************************************************************************)
\* the loop over the groups stops one group early
write_set_bind_groups_Short(level, bind_group_data, is_compute) ==
    LET keys == Keys(bind_group_data)
    IN  write_indented(level,
            << "pub fn set_bind_groups<'a>(",
               "    pass: &mut " \o pass_type(is_compute) \o ",",
               "    bind_groups: BindGroups<'a>,",
               ") {" >>)
        \o Flatten([i \in 1..(Len(keys) - 1) |->
               write_indented(level + 4,
                   <<"bind_groups.bind_group" \o ToString(keys[i]) \o ".set(pass);">>)])
        \o write_indented(level, <<"}">>)

write_set_bind_groups(level, bind_group_data, is_compute) ==
    LET keys == Keys(bind_group_data)
    IN  write_indented(level,
            << "pub fn set_bind_groups<'a>(",
               "    pass: &mut " \o pass_type(is_compute) \o ",",
               "    bind_groups: BindGroups<'a>,",
               ") {" >>)
        \o Flatten([i \in 1..Len(keys) |->
               write_indented(level + 4,
                   <<"bind_groups.bind_group" \o ToString(keys[i]) \o ".set(pass);">>)])
        \o write_indented(level, <<"}">>)

write_bind_groups_struct(bind_group_data) ==
    LET keys == Keys(bind_group_data)
    IN  <<"    pub struct BindGroups<'a> {">>
        \o [i \in 1..Len(keys) |->
               "        pub bind_group" \o ToString(keys[i])
                   \o ": &'a BindGroup" \o ToString(keys[i]) \o ","]
        \o <<"    }">>

write_bind_group(group_no, group, stages) ==
    Then(Written(<<"    pub struct BindGroup" \o ToString(group_no) \o "(wgpu::BindGroup);">>),
    Then(write_bind_group_layout(4, group_no, group),
    Then(write_bind_group_layout_descriptor(4, group_no, group, stages),
         impl_bind_group(4, group_no, group, stages))))

\* shader_stages.contains(COMPUTE) in place of the comparison
module_is_compute_Contains(stages) == (stages \div COMPUTE) % 2 = 1

\* let is_compute = shader_stages == wgpu::ShaderStages::COMPUTE (write_bind_groups_module)
module_is_compute(stages) == stages = COMPUTE


\* the visibility flags are resolved once for the module, bindings or not
write_bind_groups_module_Eager(bind_group_data, stages) ==
    LET keys == Keys(bind_group_data)
        is_compute == module_is_compute(stages)
    IN  IF stages_text(stages) = "" THEN Panicked(<<>>)
        ELSE Then(Written(<<"pub mod bind_groups {">>),
             Then(ThenAll([i \in 1..Len(keys) |->
                              write_bind_group(keys[i], bind_group_data[keys[i]], stages)]),
                  Written(write_bind_groups_struct(bind_group_data)
                          \o write_set_bind_groups(4, bind_group_data, is_compute)
                          \o <<"}">>)))

write_bind_groups_module(bind_group_data, stages) ==
    LET keys == Keys(bind_group_data)
        is_compute == module_is_compute(stages)
    IN  Then(Written(<<"pub mod bind_groups {">>),
        Then(ThenAll([i \in 1..Len(keys) |->
                         write_bind_group(keys[i], bind_group_data[keys[i]], stages)]),
             Written(write_bind_groups_struct(bind_group_data)
                     \o write_set_bind_groups(4, bind_group_data, is_compute)
                     \o <<"}">>)))

(***************************************************************************)
(* write_vertex_module, write_vertex_input_structs                         *)
(***************************************************************************)
\* wgsl::vertex_format: the wgpu::VertexFormat of a member and its size()
vertex_format(ty) ==
    LET plain == ty.k \in {"Scalar", "Vector"}
        base == CASE plain /\ ty.kind = "Float" -> "Float32"
                  [] plain /\ ty.kind = "Uint" -> "Uint32"
                  [] plain /\ ty.kind = "Sint" -> "Sint32"
                  [] OTHER -> ""
        ok == base # "" /\ ty.width = 4
        n == IF ty.k = "Vector" THEN ty.size ELSE 1
    IN  IF ~ok THEN [format |-> "", size |-> 0]
        ELSE [format |-> IF n = 1 THEN base ELSE base \o "x" \o ToString(n),
              size |-> 4 * n]

\* wgsl::get_vertex_input_structs: the struct arguments of the vertex entry
\* points, each with its (location, member) pairs in member order
VertexInput(t) ==
    [name |-> t.name,
     fields |-> [i \in 1..Len(t.inner.members) |->
                    <<t.inner.members[i].location, t.inner.members[i]>>]]

get_vertex_input_structs(module) ==
    LET vs == SelectSeq(module.entry_points, LAMBDA e : e.stage = "vertex")
        args == Flatten([i \in 1..Len(vs) |-> vs[i].arguments])
        structs == SelectSeq(args, LAMBDA t : t.inner.k = "Struct")
    IN  [i \in 1..Len(structs) |-> VertexInput(structs[i])]

RECURSIVE Sum(_)
Sum(ns) == IF ns = <<>> THEN 0 ELSE Head(ns) + Sum(Tail(ns))


\* every field takes a whole number of 16-byte rows
write_vertex_input_struct_Aligned(input) ==
    LET count == Len(input.fields)
        formats == [i \in 1..count |-> vertex_format(input.fields[i][2].ty)]
        attributes == Join([i \in 1..count |->
                               ToString(input.fields[i][1]) \o " => " \o formats[i].format],
                           ", ")
        size_in_bytes == Sum([i \in 1..count |-> ((formats[i].size + 15) \div 16) * 16])
    IN  IF \E i \in 1..count : formats[i].format = "" THEN Panicked(<<>>)
        ELSE Written(write_indented(4,
                 << "impl super::" \o input.name \o " {",
                    "    pub const VERTEX_ATTRIBUTES: [wgpu::VertexAttribute; "
                        \o ToString(count) \o "] = wgpu::vertex_attr_array!["
                        \o attributes \o "];",
                    "    /// The total size in bytes of all fields without considering padding or alignment.",
                    "    pub const SIZE_IN_BYTES: u64 = " \o ToString(size_in_bytes) \o ";",
                    "}" >>))

write_vertex_input_struct(input) ==
    LET count == Len(input.fields)
        formats == [i \in 1..count |-> vertex_format(input.fields[i][2].ty)]
        attributes == Join([i \in 1..count |->
                               ToString(input.fields[i][1]) \o " => " \o formats[i].format],
                           ", ")
        size_in_bytes == Sum([i \in 1..count |-> formats[i].size])
    IN  IF \E i \in 1..count : formats[i].format = "" THEN Panicked(<<>>)
        ELSE Written(write_indented(4,
                 << "impl super::" \o input.name \o " {",
                    "    pub const VERTEX_ATTRIBUTES: [wgpu::VertexAttribute; "
                        \o ToString(count) \o "] = wgpu::vertex_attr_array!["
                        \o attributes \o "];",
                    "    /// The total size in bytes of all fields without considering padding or alignment.",
                    "    pub const SIZE_IN_BYTES: u64 = " \o ToString(size_in_bytes) \o ";",
                    "}" >>))

write_vertex_input_structs(module) ==
    LET vertex_inputs == get_vertex_input_structs(module)
    IN  ThenAll([i \in 1..Len(vertex_inputs) |-> write_vertex_input_struct(vertex_inputs[i])])

write_vertex_module(module) ==
    Then(Written(<<"pub mod vertex {">>),
    Then(write_vertex_input_structs(module),
         Written(<<"}">>)))

(***************************************************************************)
(* create_shader_module                                                    *)
(***************************************************************************)
\* a buffer that outlives the call and is not cleared
NewOutput_Reused == IF result.kind = "Ok" THEN result.text ELSE <<>>

\* let mut output = String::new()
NewOutput == <<>>

write_create_shader_module(include_path) ==
    << "pub fn create_shader_module(device: &wgpu::Device) -> wgpu::ShaderModule {",
       "    device.create_shader_module(&wgpu::ShaderModuleDescriptor {",
       "        label: None,",
       "        source: wgpu::ShaderSource::Wgsl(std::borrow::Cow::Borrowed(include_str!(\""
           \o include_path \o "\")))",
       "    })",
       "}" >>

\* the accessor calls collected in reverse
bind_group_layouts_Reversed(bind_group_data) ==
    LET keys == Reverse(Keys(bind_group_data))
    IN  [i \in 1..Len(keys) |->
            "&bind_groups::BindGroup" \o ToString(keys[i]) \o "::get_bind_group_layout(device),"]

\* one accessor call per entry of the map, in key order
bind_group_layouts(bind_group_data) ==
    LET keys == Keys(bind_group_data)
    IN  [i \in 1..Len(keys) |->
            "&bind_groups::BindGroup" \o ToString(keys[i]) \o "::get_bind_group_layout(device),"]

\* the accessor calls are joined with "\n            " and put after 12 spaces
write_create_pipeline_layout(bind_group_data) ==
    LET calls == bind_group_layouts(bind_group_data)
    IN  << "pub fn create_pipeline_layout(device: &wgpu::Device) -> wgpu::PipelineLayout {",
           "    device.create_pipeline_layout(&wgpu::PipelineLayoutDescriptor {",
           "        label: None,",
           "        bind_group_layouts: &[" >>
        \o (IF calls = <<>> THEN <<Spaces(12)>>
            ELSE [i \in 1..Len(calls) |-> Spaces(12) \o calls[i]])
        \o << "        ],",
              "        push_constant_ranges: &[],",
              "    })",
              "}" >>

\* what the caller holds after the call
ReturnOk(output) == [kind |-> "Ok", text |-> output]

\* get_bind_group_data(&module).unwrap() in place of the ? operator
ReturnErr_Unwrap(error) == [kind |-> "Panic"]

\* the ? operator: the error of get_bind_group_data is returned as it is
ReturnErr(error) == [kind |-> "Err", error |-> error]

\* the text written before the failure reaches the caller
Unwind_KeepsOutput(output) == [kind |-> "Panic", text |-> output]


\* a panic is caught and returned as a third error value
Unwind_AsError(output) == [kind |-> "Err", error |-> [err |-> "UnsupportedFeature"]]

\* a panic unwinds through create_shader_module; its local output is dropped
Unwind(output) == [kind |-> "Panic"]


\* the text is written before the result of the checks is looked at
create_shader_module_EmitFirst(module, include_path, duplicate_first) ==
    LET bind_group_data == get_bind_group_data(module, duplicate_first)
        groups == GroupsOf(module)
        stages == shader_stages(module)
        w == Then(Written(NewOutput),
             Then(write_structs(0, module),
             Then(write_bind_groups_module(groups, stages),
             Then(write_vertex_module(module),
                  Written(write_create_shader_module(include_path)
                          \o write_create_pipeline_layout(groups))))))
    IN  IF ~w.ok THEN Unwind(w.out)
        ELSE IF ~bind_group_data.ok THEN ReturnErr(bind_group_data.error)
        ELSE ReturnOk(w.out)

create_shader_module(module, include_path, duplicate_first) ==
    LET bind_group_data == get_bind_group_data(module, duplicate_first)
    IN  IF ~bind_group_data.ok THEN ReturnErr(bind_group_data.error)
        ELSE LET stages == shader_stages(module)
                 w == Then(Written(NewOutput),
                      Then(write_structs(0, module),
                      Then(write_bind_groups_module(bind_group_data.value, stages),
                      Then(write_vertex_module(module),
                           Written(write_create_shader_module(include_path)
                                   \o write_create_pipeline_layout(bind_group_data.value))))))
             IN  IF w.ok THEN ReturnOk(w.out) ELSE Unwind(w.out)

(***************************************************************************)
(* The shaders of the model.                                               *)
(***************************************************************************)
\* names of the resource variables, by position of declaration
Names == <<"a", "b", "c", "d", "e">>

Vec4F32 == Vector(4, "Float", 4)

StructA == Type("A", Struct(<<StructMember("f", Vec4F32, 0)>>))

\* var<uniform> x: A;  var x: texture_2d<f32>;  var x: sampler;
\* var<uniform> x: vec4<f32>;  (the last is no supported binding type)
UniformStruct == [ty |-> StructA, class |-> StorageClass("Uniform", "")]

BindingShapes ==
    << UniformStruct,
       [ty |-> Type("", Image("D2", [c |-> "Sampled", kind |-> "Float", multi |-> FALSE])),
        class |-> StorageClass("Handle", "")],
       [ty |-> Type("", Sampler(FALSE)), class |-> StorageClass("Handle", "")],
       [ty |-> Type("", Vec4F32), class |-> StorageClass("Uniform", "")] >>

\* the types of the resources of one shader, by position of declaration:
\* uniform structs throughout, or the shapes in turn from any first one
ShapeRows ==
    {[i \in 1..Len(Names) |-> UniformStruct]}
    \cup {[i \in 1..Len(Names) |->
              BindingShapes[((first + i - 2) % Len(BindingShapes)) + 1]] :
          first \in 1..Len(BindingShapes)}

Slots == (0..MaxGroup) \X (0..MaxBinding)

\* the declarations  [[group(g), binding(b)]] var name: ty;  of one shader
Declarations(slots, shapes) ==
    [i \in 1..Len(slots) |->
        GlobalVariable(Names[i], shapes[i].class,
                       Some(ResourceBinding(slots[i][1], slots[i][2])), shapes[i].ty)]

\* UniqueArena: a type is stored once, the member types of a struct before it
RECURSIVE Intern(_, _)
Intern(arena, tys) ==
    IF tys = <<>> THEN arena
    ELSE LET t == Head(tys)
             members == IF t.inner.k = "Struct"
                        THEN [i \in 1..Len(t.inner.members) |-> Type("", t.inner.members[i].ty)]
                        ELSE <<>>
             with == IF members = <<>> THEN arena ELSE Intern(arena, members)
         IN  Intern(IF \E i \in 1..Len(with) : with[i] = t THEN with ELSE Append(with, t),
                    Tail(tys))

\* one entry point per stage of the set
EntryPoints(stage_set, vertex_arguments) ==
    (IF "vertex" \in stage_set THEN <<EntryPoint("vertex", vertex_arguments)>> ELSE <<>>)
    \o (IF "fragment" \in stage_set THEN <<EntryPoint("fragment", <<>>)>> ELSE <<>>)
    \o (IF "compute" \in stage_set THEN <<EntryPoint("compute", <<>>)>> ELSE <<>>)

Module(structs, globals, entry_points) ==
    [types |-> Intern(<<>>, structs \o [i \in 1..Len(globals) |-> globals[i].ty]),
     global_variables |-> globals,
     entry_points |-> entry_points]

SlotSeqs == UNION {[1..n -> Slots] : n \in 0..MaxGlobals}

Modules ==
    {Module(<<>>, Declarations(slots, shapes), EntryPoints(stage_set, <<>>)) :
        slots \in SlotSeqs, shapes \in ShapeRows, stage_set \in SUBSET Stages}

Paths == {"shader.wgsl"}

(***************************************************************************)
(* One run of a build script: a single call of create_shader_module.       *)
(***************************************************************************)
NotCalled == [kind |-> "NotCalled"]

Init ==
    /\ impl \in [duplicate_first : BOOLEAN]
    /\ wgsl_source = Module(<<>>, <<>>, <<>>)
    /\ wgsl_include_path = ""
    /\ result = NotCalled
    /\ history = <<>>

Call(module, include_path) ==
    /\ wgsl_source' = module
    /\ wgsl_include_path' = include_path
    /\ result' = create_shader_module(module, include_path, impl.duplicate_first)
    /\ history' = IF result = NotCalled THEN history
                  ELSE Append(history, [wgsl_source |-> wgsl_source,
                                        wgsl_include_path |-> wgsl_include_path,
                                        result |-> result])
    /\ UNCHANGED impl

Build ==
    /\ result = NotCalled
    /\ \E module \in Modules, include_path \in Paths : Call(module, include_path)

Next == Build

Spec == Init /\ [][Next]_vars

(***************************************************************************)
(* One build that generates several shaders: the shaders of the tests,     *)
(* called in any order and any number of times up to MaxCalls.             *)
(***************************************************************************)
Uniform(name, group, binding, ty) ==
    GlobalVariable(name, StorageClass("Uniform", ""), Some(ResourceBinding(group, binding)), ty)

Handle(name, group, binding, inner) ==
    GlobalVariable(name, StorageClass("Handle", ""), Some(ResourceBinding(group, binding)),
                   Type("", inner))

Transforms == Type("Transforms", Struct(<<>>))

Texture2dF32 == Image("D2", [c |-> "Sampled", kind |-> "Float", multi |-> FALSE])

\* test::create_shader_module_consecutive_bind_groups
ConsecutiveShader ==
    Module(<<StructA>>,
           <<Uniform("a", 0, 0, StructA), Uniform("b", 1, 0, StructA)>>,
           EntryPoints({"vertex", "fragment"}, <<>>))

\* test::create_shader_module_non_consecutive_bind_groups
NonConsecutiveShader ==
    Module(<<>>,
           <<Uniform("a", 0, 0, Type("", Vec4F32)), Uniform("b", 1, 0, Type("", Vec4F32)),
             Uniform("c", 3, 0, Type("", Vec4F32))>>,
           EntryPoints({"fragment"}, <<>>))

\* test::create_shader_module_repeated_bindings
RepeatedBindingsShader ==
    Module(<<StructA>>,
           <<Uniform("a", 0, 2, StructA), Uniform("b", 0, 2, StructA)>>,
           EntryPoints({"fragment"}, <<>>))

\* test::set_bind_groups_vertex_fragment, test::set_bind_groups_compute
TextureShader(stage_set) ==
    Module(<<Transforms>>,
           <<Handle("color_texture", 0, 0, Texture2dF32), Uniform("transforms", 1, 0, Transforms)>>,
           EntryPoints(stage_set, <<>>))

\* a uniform that is no struct: no supported binding type
BareVectorShader ==
    Module(<<>>, <<Uniform("a", 0, 0, Type("", Vec4F32))>>, EntryPoints({"fragment"}, <<>>))

TestShaders ==
    {ConsecutiveShader, NonConsecutiveShader, RepeatedBindingsShader,
     TextureShader({"vertex", "fragment"}), TextureShader({"compute"}), BareVectorShader}

SessionPaths == {"shader.wgsl", "src/model.wgsl"}

BuildMany ==
    /\ result = NotCalled \/ Len(history) + 2 <= MaxCalls
    /\ \E module \in TestShaders, include_path \in SessionPaths : Call(module, include_path)

NextCalls == BuildMany

SpecCalls == Init /\ [][NextCalls]_vars

(***************************************************************************)
(* A build of a shader that declares structs and no resources.             *)
(***************************************************************************)
F32 == Scalar("Float", 4)

U32 == Scalar("Uint", 4)

I32 == Scalar("Sint", 4)

Mat4x4F32 == Matrix(4, 4, 4)

\* the member types of the shaders of the model; f64, bool, mat3x3<f32> and
\* the runtime-sized array<f32> are outside the mapping
MemberTypes ==
    { F32, I32, U32, Scalar("Float", 8), Scalar("Bool", 1),
      Vector(2, "Float", 4), Vector(3, "Float", 4), Vector(4, "Float", 4),
      Vector(2, "Uint", 4), Vector(3, "Sint", 4), Vector(4, "Uint", 4),
      Mat4x4F32, Matrix(3, 3, 4),
      Array(U32, 5), Array(F32, 3), Array(Mat4x4F32, 512), Array(Vector(2, "Float", 4), 3),
      Array(Array(F32, 3), 5), Array(F32, 0) }

Members(tys) == [i \in 1..Len(tys) |-> StructMember(Names[i], tys[i], i - 1)]

DrawnStructs ==
    {Type("S", Struct(Members(tys))) : tys \in UNION {[1..n -> MemberTypes] : n \in 0..MaxMembers}}

\* test::write_all_structs
VectorsF32 ==
    Type("VectorsF32", Struct(Members(
        <<Vector(2, "Float", 4), Vector(3, "Float", 4), Vector(4, "Float", 4)>>)))

VectorsU32 ==
    Type("VectorsU32", Struct(Members(
        <<Vector(2, "Uint", 4), Vector(3, "Uint", 4), Vector(4, "Uint", 4)>>)))

MatricesF32 == Type("MatricesF32", Struct(Members(<<Mat4x4F32>>)))

StaticArrays ==
    Type("StaticArrays", Struct(Members(
        <<Array(U32, 5), Array(F32, 3), Array(Mat4x4F32, 512)>>)))

WriteAllStructsShader ==
    Module(<<VectorsF32, VectorsU32, MatricesF32, StaticArrays>>, <<>>,
           EntryPoints({"fragment"}, <<>>))

StructModules ==
    {WriteAllStructsShader}
    \cup {Module(structs, <<>>, EntryPoints({"fragment"}, <<>>)) :
             structs \in UNION {{<<t>>, <<t, StructA>>, <<Transforms, t>>} : t \in DrawnStructs}}

BuildStructs ==
    /\ result = NotCalled
    /\ \E module \in StructModules, include_path \in Paths : Call(module, include_path)

NextStructs == BuildStructs

SpecStructs == Init /\ [][NextStructs]_vars

(***************************************************************************)
(* A build of a shader whose resources are of every kind of binding: one   *)
(* or two resource variables, the first in group 0.                        *)
(***************************************************************************)
\* var<uniform>, var<storage, read>, var<storage, read_write>, var<storage, write>
BufferClasses ==
    {StorageClass("Uniform", ""), StorageClass("Storage", "read"),
     StorageClass("Storage", "read_write"), StorageClass("Storage", "write")}

Sampled(kind, multi) == [c |-> "Sampled", kind |-> kind, multi |-> multi]

Depth(multi) == [c |-> "Depth", multi |-> multi]

StorageImage == [c |-> "Storage"]

\* texture_2d<f32|i32|u32>, texture_multisampled_2d<f32>, texture_depth_2d,
\* texture_depth_multisampled_2d, texture_storage_2d, and the sampled and
\* depth textures of the other dimensions
ImageTypes ==
    {Image("D2", class) :
        class \in {Sampled("Float", FALSE), Sampled("Sint", FALSE), Sampled("Uint", FALSE),
                   Sampled("Float", TRUE), Depth(FALSE), Depth(TRUE), StorageImage}}
    \cup {Image(dim, class) :
            dim \in {"D1", "D3", "Cube"}, class \in {Sampled("Float", FALSE), Depth(FALSE)}}

BindingTypes ==
    {[ty |-> StructA, class |-> class] : class \in BufferClasses}
    \cup {[ty |-> Type("", Vec4F32), class |-> StorageClass("Uniform", "")],
          [ty |-> Type("", Array(F32, 0)), class |-> StorageClass("Storage", "read")]}
    \cup {[ty |-> Type("", image), class |-> StorageClass("Handle", "")] : image \in ImageTypes}
    \cup {[ty |-> Type("", Sampler(comparison)), class |-> StorageClass("Handle", "")] :
            comparison \in BOOLEAN}

\* the types of the resources by position of declaration: two types in turn
TypeRows ==
    {[i \in 1..Len(Names) |-> IF i % 2 = 1 THEN odd ELSE even] :
        odd \in BindingTypes, even \in BindingTypes}

BindingSlots ==
    {<<slot>> : slot \in Slots}
    \cup {<<<<0, binding>>, slot>> : binding \in 0..MaxBinding, slot \in Slots}

BindingModules ==
    {Module(<<>>, Declarations(slots, types), EntryPoints(stage_set, <<>>)) :
        slots \in BindingSlots, types \in TypeRows,
        stage_set \in {{"fragment"}, {"compute"}, {"vertex", "fragment"}, {"vertex", "compute"}}}

BuildBindings ==
    /\ result = NotCalled
    /\ \E module \in BindingModules, include_path \in Paths : Call(module, include_path)

NextBindings == BuildBindings

SpecBindings == Init /\ [][NextBindings]_vars

(***************************************************************************)
(* A build of a shader whose vertex entry point takes structs of vertex    *)
(* attributes.                                                             *)
(***************************************************************************)
\* f32, u32, i32 and their vectors; mat4x4<f32> and f64 are no vertex formats
VertexMemberTypes ==
    {F32, U32, I32, Mat4x4F32, Scalar("Float", 8)}
    \cup {Vector(size, kind, 4) : size \in 2..4, kind \in {"Float", "Uint", "Sint"}}

DrawnVertexInputs ==
    {Type("VertexInput", Struct(Members(tys))) :
        tys \in UNION {[1..n -> VertexMemberTypes] : n \in 0..MaxMembers}}

\* struct InstanceInput { a: vec4<f32>; b: vec2<u32>; };
InstanceInput ==
    Type("InstanceInput", Struct(
        <<StructMember("a", Vec4F32, 2), StructMember("b", Vector(2, "Uint", 4), 3)>>))

VertexModules ==
    {Module(arguments, <<>>, EntryPoints(stage_set, arguments)) :
        arguments \in UNION {{<<t>>, <<t, InstanceInput>>} : t \in DrawnVertexInputs},
        stage_set \in {{"vertex"}, {"vertex", "fragment"}}}

BuildVertex ==
    /\ result = NotCalled
    /\ \E module \in VertexModules, include_path \in Paths : Call(module, include_path)

NextVertex == BuildVertex

SpecVertex == Init /\ [][NextVertex]_vars

(***************************************************************************)
(* Vocabulary of the properties: the shader of the last call as its author *)
(* sees it, and the lines to look for in the generated text.               *)
(***************************************************************************)
Called == result # NotCalled

\* the call returned Err(error)
Refused(error) == [kind |-> "Err", error |-> error]

Globals == wgsl_source.global_variables

GroupOf(i) == Globals[i].binding[1].group

BindingOf(i) == Globals[i].binding[1].binding

DeclaredGroups == {GroupOf(i) : i \in 1..Len(Globals)}

GroupCount == Cardinality(DeclaredGroups)

ConsecutiveGroups == \A g \in DeclaredGroups : g < GroupCount

DuplicatedAt(i, j) == i # j /\ GroupOf(i) = GroupOf(j) /\ BindingOf(i) = BindingOf(j)

DuplicatedBindings ==
    {BindingOf(i) : i \in {x \in 1..Len(Globals) : \E y \in 1..Len(Globals) : DuplicatedAt(x, y)}}

UniqueBindings == DuplicatedBindings = {}

SupportedBinding(global) ==
    \/ global.ty.inner.k = "Struct" /\ global.class.space = "Uniform"
    \/ global.ty.inner.k = "Struct" /\ global.class.space = "Storage"
          /\ global.class.access \in {"read", "read_write"}
    \/ global.ty.inner.k = "Image" /\ global.ty.inner.class.c \in {"Sampled", "Depth"}
    \/ global.ty.inner.k = "Sampler"

SupportedTypes ==
    /\ \A i \in 1..Len(Globals) : SupportedBinding(Globals[i])
    /\ \A i \in 1..Len(wgsl_source.types) :
          wgsl_source.types[i].inner.k = "Struct" =>
              \A m \in 1..Len(wgsl_source.types[i].inner.members) :
                  rust_type(wgsl_source.types[i].inner.members[m].ty) # ""

StageSet == {wgsl_source.entry_points[i].stage : i \in 1..Len(wgsl_source.entry_points)}

SupportedStages == StageSet \in {{"vertex"}, {"fragment"}, {"vertex", "fragment"}, {"compute"}}

\* the lines of the text that belong to a set, in the order of the text
Pick(text, lines) == SelectSeq(text, LAMBDA l : l \in lines)

\* group numbers that a text of the model can mention
GroupNumbers == 0..(MaxGroup + 1)

BindingNumbers == 0..(MaxBinding + 1)

BindGroupLine(g) == "    pub struct BindGroup" \o ToString(g) \o "(wgpu::BindGroup);"

BindGroupLayoutLine(g) == "    pub struct BindGroupLayout" \o ToString(g) \o "<'a> {"

LayoutDescriptorLine(g) ==
    "    const LAYOUT_DESCRIPTOR" \o ToString(g)
        \o ": wgpu::BindGroupLayoutDescriptor = wgpu::BindGroupLayoutDescriptor {"

ImplBindGroupLine(g) == "    impl BindGroup" \o ToString(g) \o " {"

\* the text has one line f(g) per group 0..n-1, ascending, and no other f(g)
OnePerGroup(text, f(_), n) ==
    Pick(text, {f(g) : g \in GroupNumbers}) = [i \in 1..n |-> f(i - 1)]

OneBlockPerGroup(text, n) ==
    /\ OnePerGroup(text, BindGroupLine, n)
    /\ OnePerGroup(text, BindGroupLayoutLine, n)
    /\ OnePerGroup(text, LayoutDescriptorLine, n)
    /\ OnePerGroup(text, ImplBindGroupLine, n)
    \* the four pieces of a group stand together: struct, payload, descriptor, wrapper
    /\ Pick(text, {BindGroupLine(g) : g \in GroupNumbers}
                  \cup {BindGroupLayoutLine(g) : g \in GroupNumbers}
                  \cup {LayoutDescriptorLine(g) : g \in GroupNumbers}
                  \cup {ImplBindGroupLine(g) : g \in GroupNumbers})
       = Flatten([i \in 1..n |-> <<BindGroupLine(i - 1), BindGroupLayoutLine(i - 1),
                                   LayoutDescriptorLine(i - 1), ImplBindGroupLine(i - 1)>>])

(***************************************************************************)
(* C1.  As stated: a shader whose group indices are exactly 0..N-1, whose  *)
(* binding indices are distinct within each group and whose types are all  *)
(* supported is generated successfully, with one layout / descriptor /     *)
(* wrapper block per group in ascending group order.                       *)
(***************************************************************************)
C1_AsStated ==
    (Called /\ ConsecutiveGroups /\ UniqueBindings /\ SupportedTypes)
        => (result.kind = "Ok" /\ OneBlockPerGroup(result.text, GroupCount))

(***************************************************************************)
(* C1, amended: the same, for shaders whose entry points use exactly the   *)
(* stages vertex, fragment, vertex+fragment or compute, or that declare no *)
(* resource at all.                                                        *)
(***************************************************************************)
C1_ConsecutiveGroupsGenerate ==
    (Called /\ ConsecutiveGroups /\ UniqueBindings /\ SupportedTypes
            /\ (SupportedStages \/ Globals = <<>>))
        => (result.kind = "Ok" /\ OneBlockPerGroup(result.text, GroupCount))

C1_Witness ==
    /\ Called /\ ConsecutiveGroups /\ UniqueBindings /\ SupportedTypes /\ SupportedStages
    /\ GroupCount = 2 /\ GroupOf(1) = 1
    /\ result.kind = "Ok"

(***************************************************************************)
(* C2.  As stated: a shader whose group indices are not exactly 0..N-1 is  *)
(* refused with NonConsecutiveBindGroups, also when some group contains    *)
(* two bindings with the same index.                                       *)
(***************************************************************************)
C2_AsStated ==
    (Called /\ ~ConsecutiveGroups) => result = Refused(NonConsecutiveBindGroups)

(***************************************************************************)
(* C2, amended: such a shader is refused with NonConsecutiveBindGroups     *)
(* when its binding indices are distinct within each group; when a group   *)
(* also repeats a binding index it is refused with one of the two          *)
(* structural errors, NonConsecutiveBindGroups or DuplicateBinding of a    *)
(* repeated index, and which of the two is not fixed.                      *)
(***************************************************************************)
C2_GapIsRefused ==
    (Called /\ ~ConsecutiveGroups) =>
        /\ UniqueBindings => result = Refused(NonConsecutiveBindGroups)
        /\ result \in {Refused(NonConsecutiveBindGroups)}
                          \cup {Refused(DuplicateBinding(b)) : b \in DuplicatedBindings}

C2_Witness ==
    /\ Called /\ ~ConsecutiveGroups /\ UniqueBindings
    /\ DeclaredGroups = {0, 2}
    /\ result = Refused(NonConsecutiveBindGroups)

StructNames ==
    SelectSeq([i \in 1..Len(wgsl_source.types) |->
                  IF wgsl_source.types[i].inner.k = "Struct" THEN wgsl_source.types[i].name ELSE ""],
              LAMBDA n : n # "")

StructLine(name) == "pub struct " \o name \o " {"

BindGroupsModuleLine == "pub mod bind_groups {"

VertexModuleLine == "pub mod vertex {"

ShaderModuleFactoryLine ==
    "pub fn create_shader_module(device: &wgpu::Device) -> wgpu::ShaderModule {"

PipelineLayoutFactoryLine ==
    "pub fn create_pipeline_layout(device: &wgpu::Device) -> wgpu::PipelineLayout {"

IncludeLine(path) ==
    "        source: wgpu::ShaderSource::Wgsl(std::borrow::Cow::Borrowed(include_str!(\""
        \o path \o "\")))"

CompleteText(text) ==
    /\ Pick(text, {StructLine(StructNames[i]) : i \in 1..Len(StructNames)}
                  \cup {BindGroupsModuleLine, VertexModuleLine,
                        ShaderModuleFactoryLine, PipelineLayoutFactoryLine})
       = [i \in 1..Len(StructNames) |-> StructLine(StructNames[i])]
         \o <<BindGroupsModuleLine, VertexModuleLine,
              ShaderModuleFactoryLine, PipelineLayoutFactoryLine>>
    /\ OneBlockPerGroup(text, GroupCount)
    /\ Len(Pick(text, {IncludeLine(wgsl_include_path)})) = 1
    /\ Len(Pick(text, {"    pub struct BindGroups<'a> {"})) = 1
    /\ Len(Pick(text, {"    pub fn set_bind_groups<'a>("})) = 1
    /\ Len(Pick(text, {"        bind_group_layouts: &["})) = 1
    /\ text[Len(text)] = "}"

C4_AllOrNothing ==
    Called =>
        \/ result.kind = "Ok" /\ CompleteText(result.text)
        \/ result.kind \in {"Err", "Panic"} /\ "text" \notin DOMAIN result

\* a failure after the first group has been written
C4_Witness ==
    /\ Len(Globals) = 2 /\ SupportedStages
    /\ GroupOf(1) = 0 /\ SupportedBinding(Globals[1])
    /\ GroupOf(2) = 1 /\ ~SupportedBinding(Globals[2])
    /\ result.kind = "Panic" /\ "text" \notin DOMAIN result

(***************************************************************************)
(* C5.  Generation is deterministic and keeps no state: any two calls of   *)
(* one session with the same shader and the same include path return the   *)
(* same result, the same text or the same error, whatever was generated    *)
(* before or between them.                                                 *)
(***************************************************************************)
CallsSoFar ==
    IF Called
    THEN Append(history, [wgsl_source |-> wgsl_source,
                          wgsl_include_path |-> wgsl_include_path,
                          result |-> result])
    ELSE history

LineOf(text, l) == CHOOSE i \in 1..Len(text) : text[i] = l

\* the lines between the only line from and the first line to after it
Between(text, from, to) ==
    LET a == LineOf(text, from)
        b == CHOOSE i \in (a + 1)..Len(text) :
                 text[i] = to /\ \A j \in (a + 1)..(i - 1) : text[j] # to
    IN  SubSeq(text, a + 1, b - 1)

LayoutAccessorLine(g) ==
    "            &bind_groups::BindGroup" \o ToString(g) \o "::get_bind_group_layout(device),"

C6_PipelineLayoutList ==
    (Called /\ result.kind = "Ok") =>
        LET list == Between(result.text, "        bind_group_layouts: &[", "        ],")
        IN  /\ GroupCount > 0 => list = [i \in 1..GroupCount |-> LayoutAccessorLine(i - 1)]
            /\ GroupCount = 0 => list = <<"            ">>
            /\ \A i \in 1..GroupCount :
                  /\ (i - 1) \in DeclaredGroups
                  /\ Len(Pick(result.text, {BindGroupLine(i - 1)})) = 1

\* two groups, the second declared first
C6_Witness ==
    /\ Called /\ result.kind = "Ok"
    /\ Len(Globals) = 2 /\ GroupOf(1) = 1 /\ GroupOf(2) = 0
    /\ Between(result.text, "        bind_group_layouts: &[", "        ],")
           = <<LayoutAccessorLine(0), LayoutAccessorLine(1)>>

(***************************************************************************)
(* C7.  The aggregate BindGroups has one reference field per bind group    *)
(* and set_bind_groups makes one bind call per group, each group once, in  *)
(* ascending group order.                                                  *)
(***************************************************************************)
BindGroupsFieldLine(g) ==
    "        pub bind_group" \o ToString(g) \o ": &'a BindGroup" \o ToString(g) \o ","

SetCallLine(g) == "        bind_groups.bind_group" \o ToString(g) \o ".set(pass);"

C7_AggregateAndBulkBind ==
    (Called /\ result.kind = "Ok") =>
        LET fields == Between(result.text, "    pub struct BindGroups<'a> {", "    }")
            body == Between(result.text, "    ) {", "    }")
        IN  /\ fields = [i \in 1..GroupCount |-> BindGroupsFieldLine(i - 1)]
            /\ body = [i \in 1..GroupCount |-> SetCallLine(i - 1)]
            /\ LineOf(result.text, "    ) {") = LineOf(result.text, "    pub fn set_bind_groups<'a>(") + 3
            /\ OnePerGroup(result.text, BindGroupsFieldLine, GroupCount)
            /\ OnePerGroup(result.text, SetCallLine, GroupCount)

C7_Witness ==
    /\ Called /\ result.kind = "Ok"
    /\ Len(Globals) = 2 /\ GroupOf(1) = 1 /\ GroupOf(2) = 0
    /\ Between(result.text, "    ) {", "    }") = <<SetCallLine(0), SetCallLine(1)>>
    /\ Between(result.text, "    pub struct BindGroups<'a> {", "    }")
           = <<BindGroupsFieldLine(0), BindGroupsFieldLine(1)>>

(***************************************************************************)
(* C8.  For a shader whose stage set is vertex, fragment, vertex+fragment  *)
(* or compute, every layout entry of every group carries exactly that      *)
(* visibility; no generated text holds an entry with another visibility,   *)
(* and a shader with bindings and any other stage set yields no text.      *)
(***************************************************************************)
VisibilityLine(flags) == "                visibility: wgpu::ShaderStages::" \o flags \o ","

VisibilityOf(stage_set) ==
    CASE stage_set = {"vertex"} -> "VERTEX"
      [] stage_set = {"fragment"} -> "FRAGMENT"
      [] stage_set = {"vertex", "fragment"} -> "VERTEX_FRAGMENT"
      [] stage_set = {"compute"} -> "COMPUTE"

\* the positions where a layout entry starts
LayoutEntries(text) == {i \in 1..Len(text) : text[i] = "            wgpu::BindGroupLayoutEntry {"}

LayoutBindingLines == {"                binding: " \o ToString(b) \o "u32," : b \in BindingNumbers}

C8_StageVisibility ==
    Called =>
        /\ (result.kind = "Ok" /\ Globals # <<>>) =>
              /\ SupportedStages
              /\ Cardinality(LayoutEntries(result.text)) = Len(Globals)
              /\ \A i \in LayoutEntries(result.text) :
                    /\ result.text[i + 1] \in LayoutBindingLines
                    /\ result.text[i + 2] = VisibilityLine(VisibilityOf(StageSet))
        /\ (result.kind = "Ok" /\ Globals = <<>>) => LayoutEntries(result.text) = {}
        /\ (Globals # <<>> /\ ~SupportedStages) => result.kind # "Ok"

\* a vertex-only shader with two entries in one group
C8_Witness ==
    /\ Called /\ result.kind = "Ok" /\ StageSet = {"vertex"}
    /\ Len(Globals) = 2 /\ GroupOf(1) = 0 /\ GroupOf(2) = 0
    /\ Cardinality(LayoutEntries(result.text)) = 2
    /\ \A i \in LayoutEntries(result.text) : result.text[i + 2] = VisibilityLine("VERTEX")

(***************************************************************************)
(* C9.  The set operation of every group and the helper set_bind_groups    *)
(* all take wgpu::ComputePass if the stage set of the shader is exactly    *)
(* compute, and all take wgpu::RenderPass otherwise.                       *)
(***************************************************************************)
Passes == {"wgpu::ComputePass<'a>", "wgpu::RenderPass<'a>"}

PassOf(stage_set) == IF stage_set = {"compute"} THEN "wgpu::ComputePass<'a>" ELSE "wgpu::RenderPass<'a>"

GroupSetLine(pass) == "        pub fn set<'a>(&'a self, render_pass: &mut " \o pass \o ") {"

HelperPassLine(pass) == "        pass: &mut " \o pass \o ","

C9_PassType ==
    (Called /\ result.kind = "Ok") =>
        /\ Pick(result.text, {GroupSetLine(p) : p \in Passes})
              = [i \in 1..GroupCount |-> GroupSetLine(PassOf(StageSet))]
        /\ Pick(result.text, {HelperPassLine(p) : p \in Passes})
              = <<HelperPassLine(PassOf(StageSet))>>
        \* each wrapper has its own set operation
        /\ Pick(result.text, {GroupSetLine(p) : p \in Passes}
                                 \cup {ImplBindGroupLine(g) : g \in GroupNumbers})
              = Flatten([i \in 1..GroupCount |->
                            <<ImplBindGroupLine(i - 1), GroupSetLine(PassOf(StageSet))>>])

\* a compute shader with two groups
C9_Witness ==
    /\ Called /\ result.kind = "Ok" /\ StageSet = {"compute"} /\ GroupCount = 2
    /\ Pick(result.text, {GroupSetLine(p) : p \in Passes})
           = <<GroupSetLine("wgpu::ComputePass<'a>"), GroupSetLine("wgpu::ComputePass<'a>")>>
    /\ Pick(result.text, {HelperPassLine(p) : p \in Passes})
           = <<HelperPassLine("wgpu::ComputePass<'a>")>>

(***************************************************************************)
(* C10.  The host struct of every shader struct has one field per member,  *)
(* in the order of declaration: f32, i32 and u32 stay what they are, a     *)
(* vecN<T> becomes [T; N], mat4x4<f32> becomes glam::Mat4, and array<E, L> *)
(* becomes [map(E); L]; every struct whose members are of these shapes is  *)
(* generated.                                                              *)
(***************************************************************************)
HostScalar(ty) ==
    CASE ty.kind = "Float" /\ ty.width = 4 -> "f32"
      [] ty.kind = "Sint" /\ ty.width = 4 -> "i32"
      [] ty.kind = "Uint" /\ ty.width = 4 -> "u32"
      [] OTHER -> "?"

RECURSIVE MappedShape(_)
MappedShape(ty) ==
    \/ ty.k = "Scalar" /\ HostScalar(ty) # "?"
    \/ ty.k = "Vector" /\ ty.size \in 2..4 /\ HostScalar(ty) # "?"
    \/ ty.k = "Matrix" /\ ty.columns = 4 /\ ty.rows = 4 /\ ty.width = 4
    \/ ty.k = "Array" /\ ty.size > 0 /\ MappedShape(ty.base)

RECURSIVE HostType(_)
HostType(ty) ==
    CASE ty.k = "Scalar" -> HostScalar(ty)
      [] ty.k = "Vector" -> "[" \o HostScalar(ty) \o "; " \o ToString(ty.size) \o "]"
      [] ty.k = "Matrix" -> "glam::Mat4"
      [] ty.k = "Array" -> "[" \o HostType(ty.base) \o "; " \o ToString(ty.size) \o "]"

StructTypes == SelectSeq(wgsl_source.types, LAMBDA t : t.inner.k = "Struct")

HostFieldLine(member) == "    pub " \o member.name \o ": " \o HostType(member.ty) \o ","

C10_StructMembers ==
    Called =>
        /\ (\A i \in 1..Len(StructTypes) : \A m \in 1..Len(StructTypes[i].inner.members) :
                MappedShape(StructTypes[i].inner.members[m].ty))
              => result.kind = "Ok"
        /\ result.kind = "Ok" =>
              \A i \in 1..Len(StructTypes) :
                  Between(result.text, StructLine(StructTypes[i].name), "}")
                      = [m \in 1..Len(StructTypes[i].inner.members) |->
                            HostFieldLine(StructTypes[i].inner.members[m])]

\* the shader and the text of test::write_all_structs
C10_Witness ==
    /\ wgsl_source = WriteAllStructsShader /\ result.kind = "Ok"
    /\ SubSeq(result.text, 1, LineOf(result.text, BindGroupsModuleLine) - 1)
       = << "#[repr(C)]",
            "#[derive(Debug, Copy, Clone, PartialEq, bytemuck::Pod, bytemuck::Zeroable)]",
            "pub struct VectorsF32 {",
            "    pub a: [f32; 2],",
            "    pub b: [f32; 3],",
            "    pub c: [f32; 4],",
            "}",
            "#[repr(C)]",
            "#[derive(Debug, Copy, Clone, PartialEq, bytemuck::Pod, bytemuck::Zeroable)]",
            "pub struct VectorsU32 {",
            "    pub a: [u32; 2],",
            "    pub b: [u32; 3],",
            "    pub c: [u32; 4],",
            "}",
            "#[repr(C)]",
            "#[derive(Debug, Copy, Clone, PartialEq, bytemuck::Pod, bytemuck::Zeroable)]",
            "pub struct MatricesF32 {",
            "    pub a: glam::Mat4,",
            "}",
            "#[repr(C)]",
            "#[derive(Debug, Copy, Clone, PartialEq, bytemuck::Pod, bytemuck::Zeroable)]",
            "pub struct StaticArrays {",
            "    pub a: [u32; 5],",
            "    pub b: [f32; 3],",
            "    pub c: [glam::Mat4; 512],",
            "}" >>

(***************************************************************************)
(* C11.  The layout entry of every struct-typed binding is a Buffer        *)
(* binding type: Uniform for var<uniform>, Storage { read_only: true } for *)
(* var<storage, read>, Storage { read_only: false } for                    *)
(* var<storage, read_write>; a storage buffer of any other access mode     *)
(* makes the generation fail.                                              *)
(***************************************************************************)
LayoutBindingLine(b) == "                binding: " \o ToString(b) \o "u32,"

\* the type lines of the layout entry of binding b of group g
EntryType(text, g, b) ==
    LET seg == Between(text, LayoutDescriptorLine(g), "    };")
        k == LineOf(seg, LayoutBindingLine(b))
        e == CHOOSE i \in (k + 2)..Len(seg) :
                 /\ seg[i] = "                count: None,"
                 /\ \A j \in (k + 2)..(i - 1) : seg[j] # "                count: None,"
    IN  SubSeq(seg, k + 2, e - 1)

BufferVariant(class) ==
    CASE class.space = "Uniform" -> "wgpu::BufferBindingType::Uniform"
      [] class.space = "Storage" /\ class.access = "read" ->
            "wgpu::BufferBindingType::Storage { read_only: true }"
      [] class.space = "Storage" /\ class.access = "read_write" ->
            "wgpu::BufferBindingType::Storage { read_only: false }"
      [] OTHER -> "?"

BufferEntryType(class) ==
    << "                ty: wgpu::BindingType::Buffer {",
       "                    ty: " \o BufferVariant(class) \o ",",
       "                    has_dynamic_offset: false,",
       "                    min_binding_size: None,",
       "                }," >>

BufferGlobals == {i \in 1..Len(Globals) : Globals[i].ty.inner.k = "Struct"}

C11_BufferBindingType ==
    Called =>
        \A i \in BufferGlobals :
            /\ result.kind = "Ok" =>
                  /\ BufferVariant(Globals[i].class) # "?"
                  /\ EntryType(result.text, GroupOf(i), BindingOf(i))
                         = BufferEntryType(Globals[i].class)
            /\ (Globals[i].class.space = "Storage"
                  /\ Globals[i].class.access \notin {"read", "read_write"})
                  => result.kind # "Ok"

\* test::bind_group_layouts_descriptors_compute in small: a read-only and a
\* read-write storage buffer in group 0
C11_Witness ==
    /\ Called /\ result.kind = "Ok" /\ StageSet = {"compute"}
    /\ Len(Globals) = 2 /\ BufferGlobals = {1, 2}
    /\ Globals[1].class = StorageClass("Storage", "read")
    /\ Globals[2].class = StorageClass("Storage", "read_write")
    /\ EntryType(result.text, 0, BindingOf(1))[2]
           = "                    ty: wgpu::BufferBindingType::Storage { read_only: true },"
    /\ EntryType(result.text, 0, BindingOf(2))[2]
           = "                    ty: wgpu::BufferBindingType::Storage { read_only: false },"

(***************************************************************************)
(* C12.  The layout entry of a texture or sampler binding reflects what    *)
(* the shader declares: a sampled texture gives a Texture entry with the   *)
(* view dimension of the declared dimension and sample type                *)
(* Float { filterable: true }, a depth texture gives sample type Depth, a  *)
(* sampler gives Sampler(Filtering) and a comparison sampler               *)
(* Sampler(Comparison); the payload field is a borrowed texture view or a  *)
(* borrowed sampler.                                                       *)
(***************************************************************************)
TextureEntryType(dim, sample) ==
    << "                ty: wgpu::BindingType::Texture {",
       "                    multisampled: false,",
       "                    view_dimension: wgpu::TextureViewDimension::" \o dim \o ",",
       "                    sample_type: wgpu::TextureSampleType::" \o sample \o ",",
       "                }," >>

SamplerEntryType(kind) ==
    <<"                ty: wgpu::BindingType::Sampler(wgpu::SamplerBindingType::" \o kind \o "),">>

\* the fields of the payload struct of group g
PayloadFields(text, g) == Between(text, BindGroupLayoutLine(g), "    }")

PayloadFieldLine(name, type) == "        pub " \o name \o ": " \o type \o ","

HasLine(lines, l) == \E k \in 1..Len(lines) : lines[k] = l

C12_TextureAndSamplerEntries ==
    (Called /\ result.kind = "Ok") =>
        \A i \in 1..Len(Globals) :
            LET inner == Globals[i].ty.inner
                entry == EntryType(result.text, GroupOf(i), BindingOf(i))
                fields == PayloadFields(result.text, GroupOf(i))
            IN  /\ (inner.k = "Image" /\ inner.class.c = "Sampled") =>
                      /\ inner.dim \in {"D1", "D2", "D3", "Cube"}
                      /\ entry = TextureEntryType(inner.dim, "Float { filterable: true }")
                /\ (inner.k = "Image" /\ inner.class.c = "Depth") =>
                      entry = TextureEntryType(inner.dim, "Depth")
                /\ inner.k = "Image" =>
                      HasLine(fields, PayloadFieldLine(Globals[i].name, "&'a wgpu::TextureView"))
                /\ inner.k = "Sampler" =>
                      /\ entry = SamplerEntryType(IF inner.comparison THEN "Comparison"
                                                                     ELSE "Filtering")
                      /\ HasLine(fields, PayloadFieldLine(Globals[i].name, "&'a wgpu::Sampler"))

\* a cube depth texture and a comparison sampler in group 0
C12_Witness ==
    /\ Called /\ result.kind = "Ok" /\ Len(Globals) = 2
    /\ Globals[1].ty.inner = Image("Cube", Depth(FALSE))
    /\ Globals[2].ty.inner = Sampler(TRUE)
    /\ GroupOf(2) = 0
    /\ EntryType(result.text, 0, BindingOf(1)) = TextureEntryType("Cube", "Depth")
    /\ EntryType(result.text, 0, BindingOf(2)) = SamplerEntryType("Comparison")
    /\ PayloadFields(result.text, 0)
           = << PayloadFieldLine(Globals[1].name, "&'a wgpu::TextureView"),
                PayloadFieldLine(Globals[2].name, "&'a wgpu::Sampler") >>

(***************************************************************************)
(* C13.  As stated: every type shape outside the type mappings (a storage  *)
(* texture, an integer-sampled or multisampled texture, a buffer binding   *)
(* that is no struct, a scalar that is not 32 bits wide, a matrix that is  *)
(* not 4x4 float) makes the generation fail, so that no returned text has  *)
(* a binding entry or a struct field whose host type does not correspond   *)
(* to the type of the shader.                                              *)
(***************************************************************************)
UncoveredImage(inner) ==
    \/ inner.class.c = "Storage"
    \/ inner.class.c = "Sampled" /\ (inner.class.kind # "Float" \/ inner.class.multi)
    \/ inner.class.c = "Depth" /\ inner.class.multi

UncoveredBinding(global) ==
    \/ global.ty.inner.k \notin {"Struct", "Image", "Sampler"}
    \/ global.ty.inner.k = "Image" /\ UncoveredImage(global.ty.inner)

UncoveredMember ==
    \E i \in 1..Len(StructTypes) : \E m \in 1..Len(StructTypes[i].inner.members) :
        ~MappedShape(StructTypes[i].inner.members[m].ty)

C13_AsStated ==
    (Called /\ ((\E i \in 1..Len(Globals) : UncoveredBinding(Globals[i])) \/ UncoveredMember))
        => result.kind # "Ok"

\* texture_2d<i32> is generated as a texture of filterable floats
C13_Witness ==
    /\ Called /\ result.kind = "Ok" /\ Len(Globals) = 1
    /\ Globals[1].ty.inner = Image("D2", Sampled("Sint", FALSE))
    /\ EntryType(result.text, 0, BindingOf(1)) = TextureEntryType("D2", "Float { filterable: true }")

(***************************************************************************)
(* C14.  For every vertex-input struct, VERTEX_ATTRIBUTES has one          *)
(* (location => format) entry per field of the struct, in member order,    *)
(* its declared length is the number of fields, and SIZE_IN_BYTES is the   *)
(* sum of the sizes of the formats of the fields, 4 bytes per component,   *)
(* with no padding.                                                        *)
(***************************************************************************)
Components(ty) == IF ty.k = "Vector" THEN ty.size ELSE 1

FormatName(ty) ==
    (CASE ty.kind = "Float" -> "Float32" [] ty.kind = "Uint" -> "Uint32" [] ty.kind = "Sint" -> "Sint32")
    \o (IF Components(ty) = 1 THEN "" ELSE "x" \o ToString(Components(ty)))

RECURSIVE AttributeList(_)
AttributeList(members) ==
    IF members = <<>> THEN ""
    ELSE ToString(Head(members).location) \o " => " \o FormatName(Head(members).ty)
         \o (IF Len(members) = 1 THEN "" ELSE ", " \o AttributeList(Tail(members)))

RECURSIVE ByteSize(_)
ByteSize(members) ==
    IF members = <<>> THEN 0 ELSE 4 * Components(Head(members).ty) + ByteSize(Tail(members))

\* the struct arguments of the vertex entry points
VertexInputs ==
    Flatten([i \in 1..Len(wgsl_source.entry_points) |->
                IF wgsl_source.entry_points[i].stage = "vertex"
                THEN SelectSeq(wgsl_source.entry_points[i].arguments,
                               LAMBDA t : t.inner.k = "Struct")
                ELSE <<>>])

VertexImplLine(name) == "    impl super::" \o name \o " {"

AttributesLine(count, list) ==
    "        pub const VERTEX_ATTRIBUTES: [wgpu::VertexAttribute; " \o ToString(count)
        \o "] = wgpu::vertex_attr_array![" \o list \o "];"

SizeLine(bytes) == "        pub const SIZE_IN_BYTES: u64 = " \o ToString(bytes) \o ";"

C14_VertexAttributes ==
    (Called /\ result.kind = "Ok") =>
        /\ Pick(result.text, {VertexImplLine(VertexInputs[i].name) : i \in 1..Len(VertexInputs)})
               = [i \in 1..Len(VertexInputs) |-> VertexImplLine(VertexInputs[i].name)]
        /\ \A i \in 1..Len(VertexInputs) :
              LET members == VertexInputs[i].inner.members
                  body == Between(result.text, VertexImplLine(VertexInputs[i].name), "    }")
              IN  /\ Len(body) = 3
                  /\ body[1] = AttributesLine(Len(members), AttributeList(members))
                  /\ body[3] = SizeLine(ByteSize(members))

\* struct VertexInput { a: vec3<f32>; b: vec2<u32>; } is 12 + 8 = 20 bytes
C14_Witness ==
    /\ Called /\ result.kind = "Ok" /\ Len(VertexInputs) = 2
    /\ Between(result.text, VertexImplLine("VertexInput"), "    }")
       = << "        pub const VERTEX_ATTRIBUTES: [wgpu::VertexAttribute; 2] = wgpu::vertex_attr_array![0 => Float32x3, 1 => Uint32x2];",
            "        /// The total size in bytes of all fields without considering padding or alignment.",
            "        pub const SIZE_IN_BYTES: u64 = 20;" >>
    /\ Between(result.text, VertexImplLine("InstanceInput"), "    }")[3] = SizeLine(24)

(***************************************************************************)
(* C15.  Duplicate bindings are looked for within one group:               *)
(* DuplicateBinding is returned only when two resources of the same group  *)
(* share a binding index, and a shader with consecutive groups whose       *)
(* binding indices repeat only from one group to another is generated.     *)
(***************************************************************************)
RepeatsAcrossGroups ==
    \E i, j \in 1..Len(Globals) : GroupOf(i) # GroupOf(j) /\ BindingOf(i) = BindingOf(j)

C15_DuplicatesPerGroup ==
    Called =>
        /\ (result.kind = "Err" /\ result.error.err = "DuplicateBinding") =>
              result.error.binding \in DuplicatedBindings
        /\ (RepeatsAcrossGroups /\ UniqueBindings /\ ConsecutiveGroups
              /\ SupportedTypes /\ SupportedStages) => result.kind = "Ok"

\* test::create_shader_module_consecutive_bind_groups: binding 0 of group 0
\* and binding 0 of group 1
C15_Witness ==
    /\ Called /\ result.kind = "Ok" /\ Len(Globals) = 2
    /\ GroupOf(1) = 0 /\ GroupOf(2) = 1 /\ BindingOf(1) = 0 /\ BindingOf(2) = 0
    /\ StageSet = {"vertex", "fragment"}
    /\ Globals[1].ty = StructA /\ Globals[2].ty = StructA

(***************************************************************************)
(* C16.  As stated: every generation that fails gives the caller an error  *)
(* value of the closed set NonConsecutiveBindGroups, DuplicateBinding,     *)
(* UnsupportedFeature.                                                     *)
(***************************************************************************)
StructuralErrors ==
    {[err |-> "NonConsecutiveBindGroups"]}
    \cup {[err |-> "DuplicateBinding", binding |-> b] : b \in BindingNumbers}

C16_AsStated ==
    (Called /\ result.kind # "Ok") =>
        /\ result.kind = "Err"
        /\ result.error \in StructuralErrors \cup {[err |-> "UnsupportedFeature"]}

(***************************************************************************)
(* C16, amended.  The error values are NonConsecutiveBindGroups and        *)
(* DuplicateBinding: one of them is returned exactly when the groups are   *)
(* not consecutive from 0 or a group repeats a binding index.  A failure   *)
(* for an unsupported feature returns no value: the call panics, and it    *)
(* does so only for a shader that is structurally valid.                   *)
(***************************************************************************)
StructurallyValid == ConsecutiveGroups /\ UniqueBindings

UnsupportedFeature == ~SupportedTypes \/ (Globals # <<>> /\ ~SupportedStages)

C16_ErrorSurface ==
    Called =>
        /\ result.kind \in {"Ok", "Err", "Panic"}
        /\ result.kind = "Err" <=> ~StructurallyValid
        /\ result.kind = "Err" => result.error \in StructuralErrors
        /\ result.kind = "Panic" <=> (StructurallyValid /\ UnsupportedFeature)

\* a storage texture in a valid shader: the call panics
C16_Witness ==
    /\ Called /\ result.kind = "Panic" /\ StructurallyValid /\ SupportedStages
    /\ Len(Globals) = 1 /\ Globals[1].ty.inner = Image("D2", StorageImage)

(***************************************************************************)
(* C17.  The bindings of a group are written in ascending order of their   *)
(* binding index whatever the order in which the shader declares its       *)
(* resource variables: the layout entries, the payload fields and the      *)
(* bind-group entries of every group are ascending, and declaring the      *)
(* variables in any other order gives the same text.                       *)
(***************************************************************************)
Injective(p) == \A i, j \in DOMAIN p : p[i] = p[j] => i = j

\* the orders in which n variables can be declared
Orders(n) == {p \in [1..n -> 1..n] : Injective(p)}

\* the shader with its resource variables declared in the order p
Redeclared(module, p) ==
    [module EXCEPT !.global_variables =
        [i \in 1..Len(module.global_variables) |-> module.global_variables[p[i]]]]

\* the binding indices of group g, ascending
BindingsOf(g) == Ascending({BindingOf(i) : i \in {x \in 1..Len(Globals) : GroupOf(x) = g}})

\* the resource variable declared at binding b of group g
GlobalAt(g, b) == Globals[CHOOSE i \in 1..Len(Globals) : GroupOf(i) = g /\ BindingOf(i) = b]

PayloadType(global) ==
    CASE global.ty.inner.k = "Struct" -> "wgpu::BufferBinding<'a>"
      [] global.ty.inner.k = "Image" -> "&'a wgpu::TextureView"
      [] global.ty.inner.k = "Sampler" -> "&'a wgpu::Sampler"

EntryBindingLine(b) == "                        binding: " \o ToString(b) \o "u32,"

\* the body of impl BindGroup g
ImplBody(text, g) == Between(text, ImplBindGroupLine(g), "    }")

C17_AscendingBindings ==
    (Called /\ result.kind = "Ok") =>
        /\ \A p \in Orders(Len(Globals)) :
              create_shader_module(Redeclared(wgsl_source, p), wgsl_include_path,
                                   impl.duplicate_first) = result
        /\ \A g \in DeclaredGroups :
              LET bs == BindingsOf(g)
              IN  /\ Pick(Between(result.text, LayoutDescriptorLine(g), "    };"),
                          {LayoutBindingLine(b) : b \in BindingNumbers})
                         = [k \in 1..Len(bs) |-> LayoutBindingLine(bs[k])]
                  /\ PayloadFields(result.text, g)
                         = [k \in 1..Len(bs) |->
                               PayloadFieldLine(GlobalAt(g, bs[k]).name,
                                                PayloadType(GlobalAt(g, bs[k])))]
                  /\ Pick(ImplBody(result.text, g), {EntryBindingLine(b) : b \in BindingNumbers})
                         = [k \in 1..Len(bs) |-> EntryBindingLine(bs[k])]

\* binding 1 of group 0 is declared before binding 0
C17_Witness ==
    /\ Called /\ result.kind = "Ok" /\ Len(Globals) = 2
    /\ GroupOf(1) = 0 /\ GroupOf(2) = 0 /\ BindingOf(1) = 1 /\ BindingOf(2) = 0
    /\ PayloadFields(result.text, 0)
           = << PayloadFieldLine(Globals[2].name, PayloadType(Globals[2])),
                PayloadFieldLine(Globals[1].name, PayloadType(Globals[1])) >>
    /\ create_shader_module(Redeclared(wgsl_source, <<2, 1>>), wgsl_include_path,
                            impl.duplicate_first) = result

(***************************************************************************)
(* C18.  The structural checks come before all writing and all type        *)
(* mapping: a shader that breaks a structural rule and also has an         *)
(* unsupported feature gets the structural error value, and the call       *)
(* panics for an unsupported feature only when the shader has passed the   *)
(* checks.                                                                 *)
(***************************************************************************)
C18_ValidationFirst ==
    Called =>
        /\ (~StructurallyValid /\ UnsupportedFeature) =>
              /\ result.kind = "Err"
              /\ result.error \in StructuralErrors
        /\ result.kind = "Panic" => StructurallyValid

\* test::create_shader_module_non_consecutive_bind_groups in small: a
\* uniform vec4<f32> in group 1 and no group 0
C18_Witness ==
    /\ Called /\ Len(Globals) = 1 /\ GroupOf(1) = 1
    /\ Globals[1].ty.inner = Vec4F32
    /\ UnsupportedFeature
    /\ result = Refused([err |-> "NonConsecutiveBindGroups"])

(***************************************************************************)
(* C19.  The pieces written for a group correspond one to one: the payload *)
(* struct, the entries of LAYOUT_DESCRIPTOR and the BindGroupEntry list of *)
(* from_bindings each have one item per binding of the group, in the same  *)
(* order; the k-th layout entry and the k-th bind-group entry carry the    *)
(* same binding index, the bind-group entry reads the payload field of     *)
(* that binding, its resource variant (Buffer, TextureView, Sampler)       *)
(* matches the binding type of the layout entry, and set attaches the      *)
(* group at its own index.                                                 *)
(***************************************************************************)
\* the kind of a resource: the variant names used by the three pieces
KindOf(global) ==
    CASE global.ty.inner.k = "Struct" ->
            [layout |-> "Buffer {", resource |-> "Buffer", payload |-> "wgpu::BufferBinding<'a>"]
      [] global.ty.inner.k = "Image" ->
            [layout |-> "Texture {", resource |-> "TextureView", payload |-> "&'a wgpu::TextureView"]
      [] global.ty.inner.k = "Sampler" ->
            [layout |-> IF global.ty.inner.comparison
                        THEN "Sampler(wgpu::SamplerBindingType::Comparison),"
                        ELSE "Sampler(wgpu::SamplerBindingType::Filtering),",
             resource |-> "Sampler", payload |-> "&'a wgpu::Sampler"]

LayoutTypeLine(head) == "                ty: wgpu::BindingType::" \o head

LayoutTypeLines ==
    {LayoutTypeLine(head) :
        head \in {"Buffer {", "Texture {", "Sampler(wgpu::SamplerBindingType::Comparison),",
                  "Sampler(wgpu::SamplerBindingType::Filtering),"}}

ResourceLine(variant, name) ==
    "                        resource: wgpu::BindingResource::" \o variant
        \o "(bindings." \o name \o "),"

ResourceLines ==
    {ResourceLine(variant, Names[n]) :
        variant \in {"Buffer", "TextureView", "Sampler"}, n \in 1..Len(Names)}

SetBindGroupLine(g) ==
    "            render_pass.set_bind_group(" \o ToString(g) \o "u32, &self.0, &[]);"

C19_PiecesCorrespond ==
    (Called /\ result.kind = "Ok") =>
        \A g \in DeclaredGroups :
            LET bs == BindingsOf(g)
                at(k) == GlobalAt(g, bs[k])
                body == ImplBody(result.text, g)
            IN  /\ PayloadFields(result.text, g)
                       = [k \in 1..Len(bs) |-> PayloadFieldLine(at(k).name, KindOf(at(k)).payload)]
                /\ Pick(Between(result.text, LayoutDescriptorLine(g), "    };"),
                        {LayoutBindingLine(b) : b \in BindingNumbers} \cup LayoutTypeLines)
                       = Flatten([k \in 1..Len(bs) |->
                             <<LayoutBindingLine(bs[k]), LayoutTypeLine(KindOf(at(k)).layout)>>])
                /\ Pick(body, {EntryBindingLine(b) : b \in BindingNumbers} \cup ResourceLines)
                       = Flatten([k \in 1..Len(bs) |->
                             <<EntryBindingLine(bs[k]),
                               ResourceLine(KindOf(at(k)).resource, at(k).name)>>])
                /\ Pick(body, {SetBindGroupLine(n) : n \in GroupNumbers}) = <<SetBindGroupLine(g)>>

\* a sampler at binding 1 of group 0 declared before a texture at binding 0
C19_Witness ==
    /\ Called /\ result.kind = "Ok" /\ Len(Globals) = 2
    /\ GroupOf(2) = 0 /\ BindingOf(1) = 1 /\ BindingOf(2) = 0
    /\ Globals[1].ty.inner.k = "Sampler" /\ Globals[2].ty.inner.k = "Image"
    /\ Pick(ImplBody(result.text, 0), {EntryBindingLine(b) : b \in BindingNumbers} \cup ResourceLines)
           = << EntryBindingLine(0), ResourceLine("TextureView", Globals[2].name),
                EntryBindingLine(1), ResourceLine("Sampler", Globals[1].name) >>
    /\ Pick(ImplBody(result.text, 0), {SetBindGroupLine(n) : n \in GroupNumbers})
           = <<SetBindGroupLine(0)>>

(***************************************************************************)
(* C20.  A shader that declares no resource variable is valid whatever its *)
(* stages are, no entry point at all and compute together with render      *)
(* stages included: it is generated with an empty BindGroups struct, a     *)
(* set_bind_groups that makes no bind call, an empty bind_group_layouts    *)
(* list, and no visibility flag anywhere.                                  *)
(***************************************************************************)
VisibilityLines == {i \in 1..Len(result.text) :
                       \E flags \in {"VERTEX", "FRAGMENT", "VERTEX_FRAGMENT", "COMPUTE"} :
                           result.text[i] = VisibilityLine(flags)}

C20_NoResources ==
    (Called /\ Globals = <<>> /\ SupportedTypes) =>
        /\ result.kind = "Ok"
        /\ Between(result.text, "    pub struct BindGroups<'a> {", "    }") = <<>>
        /\ Between(result.text, "    ) {", "    }") = <<>>
        /\ Pick(result.text, {SetCallLine(g) : g \in GroupNumbers}) = <<>>
        /\ Pick(Between(result.text, "        bind_group_layouts: &[", "        ],"),
                {LayoutAccessorLine(g) : g \in GroupNumbers}) = <<>>
        /\ Pick(result.text, {BindGroupLine(g) : g \in GroupNumbers}) = <<>>
        /\ VisibilityLines = {}

\* a compute and a vertex entry point and no resource
C20_Witness ==
    /\ Called /\ Globals = <<>> /\ StageSet = {"vertex", "compute"}
    /\ result.kind = "Ok"
    /\ SubSeq(result.text, 1, 9)
       = << "pub mod bind_groups {",
            "    pub struct BindGroups<'a> {",
            "    }",
            "    pub fn set_bind_groups<'a>(",
            "        pass: &mut wgpu::RenderPass<'a>,",
            "        bind_groups: BindGroups<'a>,",
            "    ) {",
            "    }",
            "}" >>

====
